---- MODULE Spec2Model ----
(***************************************************************************)
(* Model of DPO/utils.py: create_dpo_datasets (dataset loading, split      *)
(* selection, chat-template preprocessing) and                             *)
(* create_and_prepare_model_for_dpo (quantization, adapter and tokenizer   *)
(* configuration).                                                         *)
(*                                                                         *)
(* Python strings that the code searches, splits, lower-cases or parses    *)
(* (data_args.splits, args.lora_target_modules, ACCELERATE_USE_FSDP,       *)
(* transformers.__version__) are sequences of one-character strings.       *)
(* Rendered chat text is a sequence of text pieces (a marker, a role, a    *)
(* line break, a message content); startswith and slicing act on pieces.   *)
(***************************************************************************)
EXTENDS Integers, Sequences, FiniteSets, TLC

VARIABLES
    \* ---- create_dpo_datasets ----
    pc,              \* position in create_dpo_datasets
    data_args,       \* splits, apply_chat_template, remove_system_message, is_local_data
    tokenizer_tpl,   \* the chat template of the tokenizer passed in
    source,          \* what the loader finds under data_args.dataset_name
    dataset,         \* local `dataset`
    raw_datasets,    \* local DatasetDict `raw_datasets` (a function on the keys set so far)
    calls,           \* library calls made so far, in order
    render_calls,    \* number of tokenizer.apply_chat_template calls
    error,           \* the exception that ended the call, "none" if none
    result,          \* the returned pair, NoResult before the return
    \* ---- to_apply_chat_template on its own ----
    t_pc, t_messages, t_tpl, t_remove, t_rendered, t_text,
    \* ---- create_and_prepare_model_for_dpo ----
    m_pc, args, m_data_args, env, bnb_config, quant_storage_dtype, torch_dtype,
    model, peft_config, special_tokens, chat_template, tokenizer,
    m_calls, resize_calls, bf16_hint, m_result

dvars == <<pc, data_args, tokenizer_tpl, source, dataset, raw_datasets, calls,
           render_calls, error, result>>
tvars == <<t_pc, t_messages, t_tpl, t_remove, t_rendered, t_text>>
mvars == <<m_pc, args, m_data_args, env, bnb_config, quant_storage_dtype, torch_dtype,
           model, peft_config, special_tokens, chat_template, tokenizer,
           m_calls, resize_calls, bf16_hint, m_result>>
vars == <<dvars, tvars, mvars>>

(***************************************************************************)
(* Bounds                                                                  *)
(***************************************************************************)
MaxRows == 2
MaxMessages == 2

(***************************************************************************)
(* Python str operations on sequences of characters                        *)
(***************************************************************************)
\* needle in hay (str.__contains__): needle occurs as a contiguous run
Contains(needle, hay) ==
    \E i \in 1..(Len(hay) - Len(needle) + 1) :
        SubSeq(hay, i, i + Len(needle) - 1) = needle

\* text.startswith(prefix)
StartsWith(text, prefix) ==
    /\ Len(prefix) <= Len(text)
    /\ SubSeq(text, 1, Len(prefix)) = prefix

\* text[n:]
SliceFrom(text, n) == SubSeq(text, n + 1, Len(text))

S_train == <<"t", "r", "a", "i", "n">>
S_test == <<"t", "e", "s", "t">>
S_none == <<"n", "o", "n", "e">>
S_dev == <<"d", "e", "v">>
S_comma == <<",">>

\* the values of data_args.splits that are tried
SplitsValues ==
    { S_train \o S_comma \o S_test, S_train, S_test, S_none,
      S_train \o S_comma \o S_none, S_dev, <<>> }

(***************************************************************************)
(* Chat templates                                                          *)
(***************************************************************************)
QwenSystemContent == "You are Qwen, created by Alibaba Cloud. You are a helpful assistant."

\* system_message of to_apply_chat_template
SystemMessage ==
    <<"<|im_start|>", "system", "\n", QwenSystemContent, "<|im_end|>", "\n">>

Roles == {"system", "user", "assistant"}
Contents == {QwenSystemContent, "hi"}
Messages == [role : Roles, content : Contents]

SeqsUpTo(S, n) == UNION {[1..k -> S] : k \in 0..n}

\* conversations: non-empty lists of messages
Conversations == SeqsUpTo(Messages, MaxMessages) \ {<<>>}

Msg(r, c) == [role |-> r, content |-> c]

\* DEFAULT_CHATML_CHAT_TEMPLATE, one message
ChatmlTurn(m) == <<"<|im_start|>", m.role, "\n", m.content, "<|im_end|>", "\n">>

\* ZephyrSpecialTokens.eos_token
ZephyrEos == "</s>"

\* DEFAULT_ZEPHYR_CHAT_TEMPLATE, one message
ZephyrTurn(m) ==
    CASE m.role = "user" -> <<"<|user|>", "\n", m.content, ZephyrEos, "\n">>
      [] m.role = "system" -> <<"<|system|>", "\n", m.content, ZephyrEos, "\n">>
      [] m.role = "assistant" -> <<"<|assistant|>", "\n", m.content, ZephyrEos, "\n">>
      [] OTHER -> <<>>

RECURSIVE ChatmlRender(_)
ChatmlRender(messages) ==
    IF messages = <<>> THEN <<>>
    ELSE ChatmlTurn(Head(messages)) \o ChatmlRender(Tail(messages))

RECURSIVE ZephyrRender(_)
ZephyrRender(messages) ==
    IF messages = <<>> THEN <<>>
    ELSE ZephyrTurn(Head(messages)) \o ZephyrRender(Tail(messages))

\* the template a Qwen tokenizer ships with: ChatML turns, with the default
\* system message put first when the conversation does not open with one
QwenRender(messages) ==
    (IF messages[1].role = "system" THEN <<>> ELSE SystemMessage)
        \o ChatmlRender(messages)

TokenizerTemplates == {"chatml", "zephyr", "qwen"}

\* tokenizer.apply_chat_template(messages, tokenize=False)
ApplyChatTemplate(tpl, messages) ==
    CASE tpl = "chatml" -> ChatmlRender(messages)
      [] tpl = "zephyr" -> ZephyrRender(messages)
      [] OTHER -> QwenRender(messages)

\* a slip: the system message is stripped whatever remove_system_message says
ToApplyChatTemplateAlwaysStrip(messages, tpl, remove_system_message) ==
    LET text == ApplyChatTemplate(tpl, messages)
    IN  IF StartsWith(text, SystemMessage)
        THEN SliceFrom(text, Len(SystemMessage))
        ELSE text

\* to_apply_chat_template
ToApplyChatTemplate(messages, tpl, remove_system_message) ==
    LET text == ApplyChatTemplate(tpl, messages)
    IN  IF remove_system_message /\ StartsWith(text, SystemMessage)
        THEN SliceFrom(text, Len(SystemMessage))
        ELSE text

(***************************************************************************)
(* to_apply_chat_template as a function of its inputs                      *)
(***************************************************************************)
NoText == <<"<no text>">>

TInit ==
    /\ t_pc = "call"
    /\ t_messages \in Conversations
    /\ t_tpl \in TokenizerTemplates
    /\ t_remove \in BOOLEAN
    /\ t_rendered = NoText
    /\ t_text = NoText

TApply ==
    /\ t_pc = "call"
    /\ t_rendered' = ApplyChatTemplate(t_tpl, t_messages)
    /\ t_text' = ToApplyChatTemplate(t_messages, t_tpl, t_remove)
    /\ t_pc' = "returned"
    /\ UNCHANGED <<t_messages, t_tpl, t_remove>>

(***************************************************************************)
(* Datasets                                                                *)
(***************************************************************************)
\* a datasets.Dataset: a list of rows
Dataset(rows) == [kind |-> "Dataset", rows |-> rows]
\* a datasets.DatasetDict: split name -> list of rows
DatasetDictOf(splits) == [kind |-> "DatasetDict", splits |-> splits]
\* Python None
None == [kind |-> "None"]

NoKeys == [k \in {} |-> None]
Put(d, k, v) == [x \in (DOMAIN d) \cup {k} |-> IF x = k THEN v ELSE d[x]]

\* key in ds, for ds[key] with a split name as key
HasKey(ds, k) == ds.kind = "DatasetDict" /\ k \in DOMAIN ds.splits
GetItem(ds, k) == Dataset(ds.splits[k])

ConvA == <<Msg("user", "hi"), Msg("assistant", "hi")>>
ConvB == <<Msg("system", QwenSystemContent), Msg("user", "hi")>>
ConvC == <<Msg("system", QwenSystemContent), Msg("system", QwenSystemContent)>>

DataRows ==
    { [prompt |-> "p1", chosen |-> ConvA, rejected |-> ConvB],
      [prompt |-> "p2", chosen |-> ConvB, rejected |-> ConvC],
      [prompt |-> "p3", chosen |-> ConvC, rejected |-> ConvA] }

RowSeqs == SeqsUpTo(DataRows, MaxRows)
TestRowSeqs == SeqsUpTo(DataRows, 1)

\* what load_dataset / load_from_disk may return: an unsplit dataset, a
\* dataset with a train and a test split, or one with a train split only
Sources ==
    {Dataset(r) : r \in RowSeqs}
    \cup {DatasetDictOf([train |-> t, test |-> s]) : t \in RowSeqs, s \in TestRowSeqs}
    \cup {DatasetDictOf([train |-> t]) : t \in TestRowSeqs}

\* a slip: the template is applied to "chosen" for both fields
PreprocessChosenTwice(row, tpl, remove_system_message) ==
    [chosen |-> ToApplyChatTemplate(row.chosen, tpl, remove_system_message),
     rejected |-> ToApplyChatTemplate(row.chosen, tpl, remove_system_message)]

\* preprocess(row)
Preprocess(row, tpl, remove_system_message) ==
    [chosen |-> ToApplyChatTemplate(row.chosen, tpl, remove_system_message),
     rejected |-> ToApplyChatTemplate(row.rejected, tpl, remove_system_message)]

\* Dataset.map(function, batched=False) on one row: the returned columns
\* replace or extend the row's
MapRow(row, out) ==
    [k \in (DOMAIN row) \cup (DOMAIN out) |-> IF k \in DOMAIN out THEN out[k] ELSE row[k]]

MapRows(rows, tpl, rm) ==
    [i \in 1..Len(rows) |-> MapRow(rows[i], Preprocess(rows[i], tpl, rm))]

\* ds.map(preprocess, batched=False); a DatasetDict maps every split
DatasetMap(ds, tpl, rm) ==
    IF ds.kind = "Dataset"
    THEN Dataset(MapRows(ds.rows, tpl, rm))
    ELSE DatasetDictOf([k \in DOMAIN ds.splits |-> MapRows(ds.splits[k], tpl, rm)])

RECURSIVE SumLen(_, _)
SumLen(f, keys) ==
    IF keys = {} THEN 0
    ELSE LET k == CHOOSE x \in keys : TRUE
         IN  Len(f[k]) + SumLen(f, keys \ {k})

NumRows(ds) ==
    IF ds.kind = "Dataset" THEN Len(ds.rows) ELSE SumLen(ds.splits, DOMAIN ds.splits)

\* to_apply_chat_template calls one map makes: two per row
RenderCalls(ds) == 2 * NumRows(ds)

(***************************************************************************)
(* create_dpo_datasets                                                     *)
(***************************************************************************)
NoResult == <<"<no result>">>

\* a slip: "none" is forgotten in the check
SplitNotRecognizedTrainTest(splits) ==
    /\ ~Contains(S_train, splits)
    /\ ~Contains(S_test, splits)

\* line 90: none of the three words occurs in data_args.splits
SplitNotRecognized(splits) ==
    /\ ~Contains(S_train, splits)
    /\ ~Contains(S_test, splits)
    /\ ~Contains(S_none, splits)

\* a slip: the test split is handled whatever data_args.splits is
TestSplitAlways(splits) == TRUE

\* lines 105 and 113: data_args.splits != "none"
TestSplitInUse(splits) == splits # S_none

DInit ==
    /\ pc = "start"
    /\ data_args \in [splits : SplitsValues,
                      apply_chat_template : {"none", "chatml", "zephyr"},
                      remove_system_message : BOOLEAN,
                      is_local_data : BOOLEAN]
    /\ tokenizer_tpl \in TokenizerTemplates
    /\ source \in Sources
    /\ dataset = None
    /\ raw_datasets = NoKeys
    /\ calls = <<>>
    /\ render_calls = 0
    /\ error = "none"
    /\ result = NoResult

\* lines 74-81
LoadDataset ==
    /\ pc = "start"
    /\ calls' = Append(calls, IF data_args.is_local_data
                              THEN "load_from_disk" ELSE "load_dataset")
    /\ dataset' = source
    /\ pc' = "select"
    /\ UNCHANGED <<data_args, tokenizer_tpl, source, raw_datasets, render_calls,
                   error, result>>

\* lines 83-91
SelectSplits ==
    /\ pc = "select"
    /\ LET splits == data_args.splits
           inTrain == Contains(S_train, splits)
           inTest == Contains(S_test, splits)
           inNone == Contains(S_none, splits)
           noTrain == inTrain /\ ~HasKey(dataset, "train")
           noTest == inTest /\ ~HasKey(dataset, "test")
           rd1 == IF inTrain /\ ~noTrain
                  THEN Put(raw_datasets, "train", GetItem(dataset, "train"))
                  ELSE raw_datasets
           rd2 == IF inTest /\ ~noTest
                  THEN Put(rd1, "test", GetItem(dataset, "test"))
                  ELSE rd1
           rd3 == IF inNone
                  THEN Put(Put(rd2, "train", dataset), "test", None)
                  ELSE rd2
       IN  IF noTrain
           THEN /\ raw_datasets' = raw_datasets
                /\ error' = "KeyError"
                /\ pc' = "raised"
           ELSE IF noTest
           THEN /\ raw_datasets' = rd1
                /\ error' = "KeyError"
                /\ pc' = "raised"
           ELSE IF SplitNotRecognized(splits)
           THEN /\ raw_datasets' = rd3
                /\ error' = "ValueError"
                /\ pc' = "raised"
           ELSE /\ raw_datasets' = rd3
                /\ error' = error
                /\ pc' = "preprocess"
    /\ UNCHANGED <<data_args, tokenizer_tpl, source, dataset, calls, render_calls,
                   result>>

\* lines 102-106
ApplyTemplates ==
    /\ pc = "preprocess"
    /\ LET rm == data_args.remove_system_message
           mapTrain == Put(raw_datasets, "train",
                           DatasetMap(raw_datasets["train"], tokenizer_tpl, rm))
           nTrain == RenderCalls(raw_datasets["train"])
       IN  IF data_args.apply_chat_template = "none"
           THEN /\ pc' = "report"
                /\ UNCHANGED <<raw_datasets, calls, render_calls, error>>
           ELSE IF "train" \notin DOMAIN raw_datasets
           THEN /\ pc' = "raised"
                /\ error' = "KeyError"
                /\ UNCHANGED <<raw_datasets, calls, render_calls>>
           ELSE IF ~TestSplitInUse(data_args.splits)
           THEN /\ pc' = "report"
                /\ raw_datasets' = mapTrain
                /\ calls' = Append(calls, "map:train")
                /\ render_calls' = render_calls + nTrain
                /\ error' = error
           ELSE IF "test" \notin DOMAIN raw_datasets
           THEN /\ pc' = "raised"
                /\ error' = "KeyError"
                /\ raw_datasets' = mapTrain
                /\ calls' = Append(calls, "map:train")
                /\ render_calls' = render_calls + nTrain
           ELSE IF raw_datasets["test"] = None
           THEN /\ pc' = "raised"
                /\ error' = "AttributeError"
                /\ raw_datasets' = mapTrain
                /\ calls' = Append(calls, "map:train")
                /\ render_calls' = render_calls + nTrain
           ELSE /\ pc' = "report"
                /\ raw_datasets' =
                       Put(mapTrain, "test",
                           DatasetMap(raw_datasets["test"], tokenizer_tpl, rm))
                /\ calls' = calls \o <<"map:train", "map:test">>
                /\ render_calls' = render_calls + nTrain
                                       + RenderCalls(raw_datasets["test"])
                /\ error' = error
    /\ UNCHANGED <<data_args, tokenizer_tpl, source, dataset, result>>

\* lines 109-115
ReportSizes ==
    /\ pc = "report"
    /\ IF "train" \notin DOMAIN raw_datasets
       THEN /\ pc' = "raised"
            /\ error' = "KeyError"
            /\ calls' = calls
       ELSE IF ~TestSplitInUse(data_args.splits)
       THEN /\ pc' = "return"
            /\ error' = error
            /\ calls' = Append(calls, "len:train")
       ELSE IF "test" \notin DOMAIN raw_datasets
       THEN /\ pc' = "raised"
            /\ error' = "KeyError"
            /\ calls' = Append(calls, "len:train")
       ELSE IF raw_datasets["test"] = None
       THEN /\ pc' = "raised"
            /\ error' = "TypeError"
            /\ calls' = calls \o <<"len:train", "len:test">>
       ELSE /\ pc' = "return"
            /\ error' = error
            /\ calls' = calls \o <<"len:train", "len:test">>
    /\ UNCHANGED <<data_args, tokenizer_tpl, source, dataset, raw_datasets,
                   render_calls, result>>

\* line 117
ReturnDatasets ==
    /\ pc = "return"
    /\ result' = <<raw_datasets["train"], raw_datasets["test"]>>
    /\ pc' = "done"
    /\ UNCHANGED <<data_args, tokenizer_tpl, source, dataset, raw_datasets, calls,
                   render_calls, error>>

(***************************************************************************)
(* More str operations                                                     *)
(***************************************************************************)
\* index of the first occurrence of the one-character separator, 0 if none
RECURSIVE FindChar(_, _, _)
FindChar(s, ch, i) ==
    IF i > Len(s) THEN 0
    ELSE IF s[i] = ch THEN i
    ELSE FindChar(s, ch, i + 1)

\* s.split(ch): the pieces between separators, empty pieces kept
RECURSIVE StrSplit(_, _)
StrSplit(s, ch) ==
    LET i == FindChar(s, ch, 1)
    IN  IF i = 0 THEN <<s>>
        ELSE <<SubSeq(s, 1, i - 1)>> \o StrSplit(SubSeq(s, i + 1, Len(s)), ch)

LowerChar(c) ==
    CASE c = "T" -> "t"
      [] c = "R" -> "r"
      [] c = "U" -> "u"
      [] c = "E" -> "e"
      [] c = "F" -> "f"
      [] c = "A" -> "a"
      [] c = "L" -> "l"
      [] c = "S" -> "s"
      [] OTHER -> c

\* s.lower()
StrLower(s) == [i \in 1..Len(s) |-> LowerChar(s[i])]

DigitValue(c) ==
    CASE c = "0" -> 0 [] c = "1" -> 1 [] c = "2" -> 2 [] c = "3" -> 3
      [] c = "4" -> 4 [] c = "5" -> 5 [] c = "6" -> 6 [] c = "7" -> 7
      [] c = "8" -> 8 [] c = "9" -> 9

\* int(s) for a run of digits
RECURSIVE ParseInt(_)
ParseInt(s) ==
    IF s = <<>> THEN 0
    ELSE 10 * ParseInt(SubSeq(s, 1, Len(s) - 1)) + DigitValue(s[Len(s)])

\* packaging.version.parse of a release version "X.Y.Z": its release tuple
ParseVersion(s) ==
    LET parts == StrSplit(s, ".")
    IN  [i \in 1..Len(parts) |-> ParseInt(parts[i])]

\* order of two release tuples of the same length
RECURSIVE TupleGeq(_, _)
TupleGeq(a, b) ==
    IF a = <<>> \/ b = <<>> THEN TRUE
    ELSE IF Head(a) > Head(b) THEN TRUE
    ELSE IF Head(a) < Head(b) THEN FALSE
    ELSE TupleGeq(Tail(a), Tail(b))

\* order of two strings character by character, as str >= str
RECURSIVE StrGeq(_, _)
StrGeq(a, b) ==
    IF b = <<>> THEN TRUE
    ELSE IF a = <<>> THEN FALSE
    ELSE IF Head(a) = "." /\ Head(b) # "." THEN FALSE
    ELSE IF Head(a) # "." /\ Head(b) = "." THEN TRUE
    ELSE IF Head(a) = "." /\ Head(b) = "." THEN StrGeq(Tail(a), Tail(b))
    ELSE IF DigitValue(Head(a)) > DigitValue(Head(b)) THEN TRUE
    ELSE IF DigitValue(Head(a)) < DigitValue(Head(b)) THEN FALSE
    ELSE StrGeq(Tail(a), Tail(b))

V_4_46_0 == <<"4", ".", "4", "6", ".", "0">>
V_4_45_2 == <<"4", ".", "4", "5", ".", "2">>
V_4_9_3 == <<"4", ".", "9", ".", "3">>
V_5_0_0 == <<"5", ".", "0", ".", "0">>

\* the values of transformers.__version__ that are tried
TransformersVersions == {V_4_45_2, V_4_46_0, V_4_9_3, V_5_0_0}

\* a slip: the version strings are compared as text, not parsed
UsesTransformers446Text(version) == StrGeq(version, V_4_46_0)

\* line 198
UsesTransformers446(version) ==
    TupleGeq(ParseVersion(version), ParseVersion(V_4_46_0))

S_true == <<"t", "r", "u", "e">>
FsdpKey == "ACCELERATE_USE_FSDP"

\* the environments that are tried: the variable unset, or set to a value
Environments ==
    { NoKeys }
    \cup { [k \in {FsdpKey} |-> v] :
             v \in { S_true, <<"T", "r", "u", "e">>, <<"T", "R", "U", "E">>,
                     <<"f", "a", "l", "s", "e">>, <<"1">> } }

\* os.environ.get(key, default)
EnvironGet(e, key, default) == IF key \in DOMAIN e THEN e[key] ELSE default

\* line 199
UsesFsdp(e) == StrLower(EnvironGet(e, FsdpKey, <<>>)) = S_true

(***************************************************************************)
(* Special tokens                                                          *)
(***************************************************************************)
\* class ZephyrSpecialTokens(str, Enum): member values, in definition order
ZephyrSpecialTokens ==
    [name |-> "ZephyrSpecialTokens",
     user |-> "<|user|>", assistant |-> "<|assistant|>", system |-> "<|system|>",
     eos_token |-> ZephyrEos, bos_token |-> "<s>", pad_token |-> "<pad>"]

\* class ChatmlSpecialTokens(str, Enum): bos_token = None becomes a member
\* whose value is str(None)
ChatmlSpecialTokens ==
    [name |-> "ChatmlSpecialTokens",
     user |-> "<|im_start|>user", assistant |-> "<|im_start|>assistant",
     system |-> "<|im_start|>system",
     eos_token |-> "<|im_end|>", bos_token |-> "None", pad_token |-> "<|endoftext|>"]

\* cls.list(): [c.value for c in cls]
TokenList(cls) ==
    <<cls.user, cls.assistant, cls.system, cls.eos_token, cls.bos_token, cls.pad_token>>

DEFAULT_CHATML_CHAT_TEMPLATE == "chatml"
DEFAULT_ZEPHYR_CHAT_TEMPLATE == "zephyr"

(***************************************************************************)
(* create_and_prepare_model_for_dpo                                        *)
(***************************************************************************)
S_all_linear == <<"a", "l", "l", "-", "l", "i", "n", "e", "a", "r">>

\* the values of args.lora_target_modules that are tried
LoraTargetValues ==
    { S_all_linear, <<"q">>, <<"q", ",", "v">>, <<"q", ",">>, <<>> }

FloatingPoint == {"float16", "bfloat16", "float32"}

PadToMultipleOf == 8

\* the vocabulary of the pretrained tokenizer
BaseVocab == {"<|endoftext|>", "<|im_start|>", "<|im_end|>", "a", "b", "c", "d"}

SeqRange(s) == {s[i] : i \in DOMAIN s}

\* BitsAndBytesConfig(...) with the library's defaults for what is not passed
BitsAndBytesConfig4(a) ==
    [load_in_4bit |-> a.use_4bit_quantization,
     load_in_8bit |-> FALSE,
     bnb_4bit_quant_type |-> a.bnb_4bit_quant_type,
     bnb_4bit_compute_dtype |-> a.bnb_4bit_compute_dtype,
     bnb_4bit_use_double_quant |-> a.use_nested_quant,
     bnb_4bit_quant_storage |-> a.bnb_4bit_quant_storage_dtype]

BitsAndBytesConfig8(a) ==
    [load_in_4bit |-> FALSE,
     load_in_8bit |-> a.use_8bit_quantization,
     bnb_4bit_quant_type |-> "fp4",
     bnb_4bit_compute_dtype |-> "float32",
     bnb_4bit_use_double_quant |-> FALSE,
     bnb_4bit_quant_storage |-> "uint8"]

\* a slip: the 8-bit flag is tested first
QuantConfig8First(a) ==
    IF a.use_8bit_quantization THEN BitsAndBytesConfig8(a)
    ELSE IF a.use_4bit_quantization THEN BitsAndBytesConfig4(a)
    ELSE None

\* lines 123-146: bnb_config
QuantConfig(a) ==
    IF a.use_4bit_quantization THEN BitsAndBytesConfig4(a)
    ELSE IF a.use_8bit_quantization THEN BitsAndBytesConfig8(a)
    ELSE None

\* a slip: "all-linear" is split like any other value
TargetModulesSplitAlways(s) == StrSplit(s, ",")

\* lines 171-173: target_modules
TargetModules(s) == IF s # S_all_linear THEN StrSplit(s, ",") ELSE s

\* a slip: only the ChatML template gets special tokens
SpecialTokensChatmlOnly(tpl) ==
    CASE tpl = "chatml" -> ChatmlSpecialTokens
      [] OTHER -> None

\* lines 177-184: special_tokens
SpecialTokensFor(tpl) ==
    CASE tpl = "chatml" -> ChatmlSpecialTokens
      [] tpl = "zephyr" -> ZephyrSpecialTokens
      [] OTHER -> None

\* lines 177-184: chat_template
ChatTemplateFor(tpl) ==
    CASE tpl = "chatml" -> DEFAULT_CHATML_CHAT_TEMPLATE
      [] tpl = "zephyr" -> DEFAULT_ZEPHYR_CHAT_TEMPLATE
      [] OTHER -> "None"

\* line 200
MeanResizingOff(cfg, e, version) ==
    (cfg # None) /\ UsesFsdp(e) /\ UsesTransformers446(version)

\* len(tokenizer)
TokenizerLen(tok) == Cardinality(tok.vocab)

\* the embedding rows after resize_token_embeddings(n, pad_to_multiple_of=m)
PaddedSize(n, m) == ((n + m - 1) \div m) * m

NoValue == [kind |-> "unset"]

MInit ==
    /\ m_pc = "quant"
    /\ args \in [use_4bit_quantization : BOOLEAN,
                 use_8bit_quantization : BOOLEAN,
                 bnb_4bit_compute_dtype : {"float16", "bfloat16"},
                 bnb_4bit_quant_storage_dtype : {"uint8", "bfloat16"},
                 bnb_4bit_quant_type : {"nf4"},
                 use_nested_quant : {TRUE},
                 use_flash_attn : BOOLEAN,
                 use_peft_lora : BOOLEAN,
                 lora_target_modules : LoraTargetValues,
                 model_name_or_path : {"Qwen/Qwen2.5-0.5B"}]
    /\ m_data_args \in [apply_chat_template : {"chatml", "zephyr", "none"}]
    /\ env \in [environ : Environments, transformers_version : TransformersVersions]
    /\ bnb_config = NoValue
    /\ quant_storage_dtype = "None"
    /\ torch_dtype = "unset"
    /\ model = NoValue
    /\ peft_config = NoValue
    /\ special_tokens = NoValue
    /\ chat_template = "unset"
    /\ tokenizer = NoValue
    /\ m_calls = <<>>
    /\ resize_calls = <<>>
    /\ bf16_hint = FALSE
    /\ m_result = NoResult

\* lines 121-151
BuildQuantConfig ==
    /\ m_pc = "quant"
    /\ LET qsd == IF args.use_4bit_quantization
                  THEN args.bnb_4bit_quant_storage_dtype ELSE "None"
       IN  /\ quant_storage_dtype' = qsd
           /\ torch_dtype' = IF qsd # "None" /\ qsd \in FloatingPoint
                             THEN qsd ELSE "float32"
    /\ bnb_config' = QuantConfig(args)
    /\ \E major \in {7, 8} :
          bf16_hint' = (/\ args.use_4bit_quantization
                        /\ args.bnb_4bit_compute_dtype = "float16"
                        /\ major >= 8)
    /\ m_pc' = "load_model"
    /\ UNCHANGED <<args, m_data_args, env, model, peft_config, special_tokens,
                   chat_template, tokenizer, m_calls, resize_calls, m_result>>

\* lines 153-160
LoadModel ==
    /\ m_pc = "load_model"
    /\ model' = [name_or_path |-> args.model_name_or_path,
                 quantization_config |-> bnb_config,
                 trust_remote_code |-> TRUE,
                 attn_implementation |-> IF args.use_flash_attn
                                         THEN "flash_attention_2" ELSE "eager",
                 torch_dtype |-> torch_dtype,
                 num_embeddings |-> Cardinality(BaseVocab)]
    /\ m_calls' = Append(m_calls, "AutoModelForCausalLM.from_pretrained")
    /\ m_pc' = "peft"
    /\ UNCHANGED <<args, m_data_args, env, bnb_config, quant_storage_dtype,
                   torch_dtype, peft_config, special_tokens, chat_template,
                   tokenizer, resize_calls, bf16_hint, m_result>>

\* lines 162-174
BuildPeftConfig ==
    /\ m_pc = "peft"
    /\ peft_config' =
           IF args.use_peft_lora
           THEN [bias |-> "none", task_type |-> "CAUSAL_LM",
                 target_modules |-> TargetModules(args.lora_target_modules)]
           ELSE None
    /\ m_pc' = "template"
    /\ UNCHANGED <<args, m_data_args, env, bnb_config, quant_storage_dtype,
                   torch_dtype, model, special_tokens, chat_template, tokenizer,
                   m_calls, resize_calls, bf16_hint, m_result>>

\* lines 176-184
SelectTemplate ==
    /\ m_pc = "template"
    /\ special_tokens' = SpecialTokensFor(m_data_args.apply_chat_template)
    /\ chat_template' = ChatTemplateFor(m_data_args.apply_chat_template)
    /\ m_pc' = "load_tokenizer"
    /\ UNCHANGED <<args, m_data_args, env, bnb_config, quant_storage_dtype,
                   torch_dtype, model, peft_config, tokenizer, m_calls,
                   resize_calls, bf16_hint, m_result>>

\* lines 186-195 and 204-205
LoadTokenizer ==
    /\ m_pc = "load_tokenizer"
    /\ IF special_tokens # None
       THEN /\ tokenizer' =
                   [name_or_path |-> args.model_name_or_path,
                    kwargs |-> [pad_token |-> special_tokens.pad_token,
                                bos_token |-> special_tokens.bos_token,
                                eos_token |-> special_tokens.eos_token,
                                additional_special_tokens |-> TokenList(special_tokens),
                                trust_remote_code |-> TRUE],
                    vocab |-> BaseVocab \cup SeqRange(TokenList(special_tokens)),
                    chat_template |-> chat_template]
            /\ m_pc' = "resize"
       ELSE /\ tokenizer' =
                   [name_or_path |-> args.model_name_or_path,
                    kwargs |-> [trust_remote_code |-> TRUE],
                    vocab |-> BaseVocab,
                    chat_template |-> "pretrained"]
            /\ m_pc' = "return"
    /\ m_calls' = Append(m_calls, "AutoTokenizer.from_pretrained")
    /\ UNCHANGED <<args, m_data_args, env, bnb_config, quant_storage_dtype,
                   torch_dtype, model, peft_config, special_tokens, chat_template,
                   resize_calls, bf16_hint, m_result>>

\* lines 197-203
ResizeEmbeddings ==
    /\ m_pc = "resize"
    /\ resize_calls' =
           Append(resize_calls,
                  [new_num_tokens |-> TokenizerLen(tokenizer),
                   pad_to_multiple_of |-> PadToMultipleOf,
                   mean_resizing |->
                       IF MeanResizingOff(bnb_config, env.environ,
                                          env.transformers_version)
                       THEN "False" ELSE "default"])
    /\ model' = [model EXCEPT !.num_embeddings =
                     PaddedSize(TokenizerLen(tokenizer), PadToMultipleOf)]
    /\ m_calls' = Append(m_calls, "model.resize_token_embeddings")
    /\ m_pc' = "return"
    /\ UNCHANGED <<args, m_data_args, env, bnb_config, quant_storage_dtype,
                   torch_dtype, peft_config, special_tokens, chat_template,
                   tokenizer, bf16_hint, m_result>>

\* line 207
ReturnModel ==
    /\ m_pc = "return"
    /\ m_result' = <<model, peft_config, tokenizer>>
    /\ m_pc' = "done"
    /\ UNCHANGED <<args, m_data_args, env, bnb_config, quant_storage_dtype,
                   torch_dtype, model, peft_config, special_tokens, chat_template,
                   tokenizer, m_calls, resize_calls, bf16_hint>>

(***************************************************************************)
(* Specifications                                                          *)
(***************************************************************************)
DIdle ==
    /\ pc = "idle"
    /\ data_args = NoValue
    /\ tokenizer_tpl = "unset"
    /\ source = None
    /\ dataset = None
    /\ raw_datasets = NoKeys
    /\ calls = <<>>
    /\ render_calls = 0
    /\ error = "none"
    /\ result = NoResult

TIdle ==
    /\ t_pc = "idle"
    /\ t_messages = <<>>
    /\ t_tpl = "unset"
    /\ t_remove = FALSE
    /\ t_rendered = NoText
    /\ t_text = NoText

MIdle ==
    /\ m_pc = "idle"
    /\ args = NoValue
    /\ m_data_args = NoValue
    /\ env = NoValue
    /\ bnb_config = NoValue
    /\ quant_storage_dtype = "None"
    /\ torch_dtype = "unset"
    /\ model = NoValue
    /\ peft_config = NoValue
    /\ special_tokens = NoValue
    /\ chat_template = "unset"
    /\ tokenizer = NoValue
    /\ m_calls = <<>>
    /\ resize_calls = <<>>
    /\ bf16_hint = FALSE
    /\ m_result = NoResult

\* create_dpo_datasets
Init == DInit /\ TIdle /\ MIdle

Next ==
    \/ LoadDataset /\ UNCHANGED <<tvars, mvars>>
    \/ SelectSplits /\ UNCHANGED <<tvars, mvars>>
    \/ ApplyTemplates /\ UNCHANGED <<tvars, mvars>>
    \/ ReportSizes /\ UNCHANGED <<tvars, mvars>>
    \/ ReturnDatasets /\ UNCHANGED <<tvars, mvars>>

Spec == Init /\ [][Next]_vars

\* to_apply_chat_template
TemplateInit == TInit /\ DIdle /\ MIdle

TemplateNext == TApply /\ UNCHANGED <<dvars, mvars>>

SpecTemplate == TemplateInit /\ [][TemplateNext]_vars

\* create_and_prepare_model_for_dpo
ModelInit == MInit /\ DIdle /\ TIdle

ModelNext ==
    \/ BuildQuantConfig /\ UNCHANGED <<dvars, tvars>>
    \/ LoadModel /\ UNCHANGED <<dvars, tvars>>
    \/ BuildPeftConfig /\ UNCHANGED <<dvars, tvars>>
    \/ SelectTemplate /\ UNCHANGED <<dvars, tvars>>
    \/ LoadTokenizer /\ UNCHANGED <<dvars, tvars>>
    \/ ResizeEmbeddings /\ UNCHANGED <<dvars, tvars>>
    \/ ReturnModel /\ UNCHANGED <<dvars, tvars>>

SpecModel == ModelInit /\ [][ModelNext]_vars

(***************************************************************************)
(* Properties of create_dpo_datasets                                       *)
(***************************************************************************)
MapCalls == {"map:train", "map:test"}

\* the text to_apply_chat_template is to return for a conversation: the
\* rendering, less one leading system message when that is asked for
IsTemplated(messages, text) ==
    LET rendered == ApplyChatTemplate(tokenizer_tpl, messages)
    IN  IF data_args.remove_system_message /\ StartsWith(rendered, SystemMessage)
        THEN SystemMessage \o text = rendered
        ELSE text = rendered

\* the text is the plain chat-template rendering of the conversation
IsRendered(messages, text) == text = ApplyChatTemplate(tokenizer_tpl, messages)

\* new is old with chosen and rejected rewritten (as Rewritten(conversation,
\* text) says), every other field, the row count and the row order kept
RowsRewritten(old, new, Rewritten(_, _)) ==
    /\ Len(new) = Len(old)
    /\ \A i \in 1..Len(old) :
          /\ DOMAIN new[i] = DOMAIN old[i]
          /\ \A k \in (DOMAIN old[i]) \ {"chosen", "rejected"} : new[i][k] = old[i][k]
          /\ Rewritten(old[i].chosen, new[i].chosen)
          /\ Rewritten(old[i].rejected, new[i].rejected)

DatasetRewritten(old, new, Rewritten(_, _)) ==
    /\ new.kind = old.kind
    /\ old.kind = "Dataset" => RowsRewritten(old.rows, new.rows, Rewritten)
    /\ old.kind = "DatasetDict" =>
          /\ DOMAIN new.splits = DOMAIN old.splits
          /\ \A k \in DOMAIN old.splits :
                RowsRewritten(old.splits[k], new.splits[k], Rewritten)

\* the splits data_args.splits selects, before any preprocessing
SelectedTrain == IF data_args.splits = S_none THEN source ELSE GetItem(source, "train")
SelectedTest == IF data_args.splits = S_none THEN None ELSE GetItem(source, "test")

FrameEffect(Rewritten(_, _)) ==
    pc = "done" =>
        IF data_args.apply_chat_template # "none"
        THEN /\ DatasetRewritten(SelectedTrain, result[1], Rewritten)
             /\ IF SelectedTest = None THEN result[2] = None
                ELSE DatasetRewritten(SelectedTest, result[2], Rewritten)
        ELSE /\ result = <<SelectedTrain, SelectedTest>>
             /\ render_calls = 0
             /\ SeqRange(calls) \cap MapCalls = {}

\* C1 as stated: with a chat template asked for, every returned row has chosen
\* and rejected replaced by the chat-template rendering of the row's original
\* chosen and rejected, every other field, the row count and the row order are
\* unchanged; with "none" the selected splits come back unmodified and the
\* renderer is never called.
C1_RenderingOnly == FrameEffect(IsRendered)

\* C1, amended: as C1, with chosen and rejected replaced by what
\* to_apply_chat_template returns: the rendering, less its leading Qwen system
\* message when remove_system_message is set and the rendering starts with it.
C1_FrameEffect == FrameEffect(IsTemplated)

C1_Witness ==
    /\ pc = "done"
    /\ data_args.apply_chat_template # "none"
    /\ data_args.remove_system_message
    /\ result[1].kind = "Dataset"
    /\ Len(result[1].rows) >= 2
    /\ result[1].rows[1] # result[1].rows[2]
    /\ result[1].rows[1].prompt = "p1"
    /\ result[1].rows[1].chosen # ApplyChatTemplate(tokenizer_tpl, ConvA)
    /\ result[2] # None
    /\ Len(result[2].rows) >= 1

\* C2 as stated: whenever data_args.splits passes the split check and the
\* loaded dataset has a train and a test split, create_dpo_datasets ends
\* without an error, whatever apply_chat_template is.
C2_NoErrorWhenRecognized ==
    (/\ ~SplitNotRecognized(data_args.splits)
     /\ HasKey(source, "train")
     /\ HasKey(source, "test")) => error = "none"

\* C3: ValueError is raised if and only if none of "train", "test" and "none"
\* occurs in data_args.splits; it is raised after the dataset is loaded, before
\* any row is preprocessed, and nothing is returned.
C3_ValueErrorIff ==
    LET unknown == /\ ~Contains(S_train, data_args.splits)
                   /\ ~Contains(S_test, data_args.splits)
                   /\ ~Contains(S_none, data_args.splits)
    IN  /\ error = "ValueError" =>
              /\ unknown
              /\ pc = "raised"
              /\ Len(calls) = 1
              /\ calls[1] \in {"load_dataset", "load_from_disk"}
              /\ dataset = source
              /\ render_calls = 0
              /\ result = NoResult
        /\ (unknown /\ pc \notin {"start", "select"}) => error = "ValueError"

C3_Witness ==
    /\ error = "ValueError"
    /\ data_args.splits = S_dev
    /\ data_args.apply_chat_template # "none"

\* C7: with data_args.splits exactly "none" the call succeeds, the whole loaded
\* dataset (preprocessed when a chat template is asked for) is returned as the
\* train dataset and None as the test dataset, and neither map nor len is ever
\* called on the test dataset.
C7_UnsplitDataset ==
    data_args.splits = S_none =>
        /\ error = "none"
        /\ SeqRange(calls) \cap {"map:test", "len:test"} = {}
        /\ pc = "done" =>
              /\ result[2] = None
              /\ IF data_args.apply_chat_template = "none"
                 THEN result[1] = source
                 ELSE DatasetRewritten(source, result[1], IsTemplated)

C7_Witness ==
    /\ pc = "done"
    /\ data_args.splits = S_none
    /\ data_args.apply_chat_template # "none"
    /\ source.kind = "Dataset"
    /\ Len(source.rows) >= 1
    /\ result[1] # source
    /\ result[2] = None

(***************************************************************************)
(* Properties of to_apply_chat_template                                    *)
(***************************************************************************)
\* C9 as stated: with remove_system_message set and a rendering that starts
\* with the Qwen system message, the result is the rendering with that prefix
\* removed, and so no longer starts with the system message; otherwise the
\* result is the rendering unchanged.
C9_NoSystemMessageLeft ==
    t_pc = "returned" =>
        IF t_remove /\ StartsWith(t_rendered, SystemMessage)
        THEN /\ SystemMessage \o t_text = t_rendered
             /\ ~StartsWith(t_text, SystemMessage)
        ELSE t_text = t_rendered

\* C9, amended: with remove_system_message set and a rendering that starts with
\* the Qwen system message, the result is the rendering with exactly one
\* leading occurrence of it removed (what remains may itself start with the
\* system message); otherwise the result is the rendering unchanged.
C9_PrefixRemovedOnce ==
    t_pc = "returned" =>
        IF t_remove /\ StartsWith(t_rendered, SystemMessage)
        THEN SystemMessage \o t_text = t_rendered
        ELSE t_text = t_rendered

C9_Witness ==
    /\ t_pc = "returned"
    /\ t_remove
    /\ StartsWith(t_rendered, SystemMessage)
    /\ t_text # t_rendered
    /\ Len(t_text) = Len(t_rendered) - Len(SystemMessage)

(***************************************************************************)
(* Properties of create_and_prepare_model_for_dpo                          *)
(***************************************************************************)
CountOf(seq, x) == Cardinality({i \in DOMAIN seq : seq[i] = x})
IndexOf(seq, x) == CHOOSE i \in DOMAIN seq : seq[i] = x

ModelLoad == "AutoModelForCausalLM.from_pretrained"
TokenizerLoad == "AutoTokenizer.from_pretrained"
Resize == "model.resize_token_embeddings"

\* C4: the quantization configuration is 4-bit when use_4bit_quantization is
\* set (whatever use_8bit_quantization is), 8-bit when only
\* use_8bit_quantization is set, None when neither is; the model is loaded
\* exactly once, with that configuration.
C4_QuantizationChoice ==
    /\ m_pc # "quant" =>
          /\ args.use_4bit_quantization =>
                /\ bnb_config # None
                /\ bnb_config.load_in_4bit
                /\ ~bnb_config.load_in_8bit
                /\ bnb_config.bnb_4bit_compute_dtype = args.bnb_4bit_compute_dtype
                /\ bnb_config.bnb_4bit_quant_storage = args.bnb_4bit_quant_storage_dtype
          /\ (~args.use_4bit_quantization /\ args.use_8bit_quantization) =>
                /\ bnb_config # None
                /\ bnb_config.load_in_8bit
                /\ ~bnb_config.load_in_4bit
          /\ (~args.use_4bit_quantization /\ ~args.use_8bit_quantization) =>
                bnb_config = None
    /\ CountOf(m_calls, ModelLoad) = IF m_pc \in {"quant", "load_model"} THEN 0 ELSE 1
    /\ m_pc \notin {"quant", "load_model"} => model.quantization_config = bnb_config
    /\ m_pc = "done" => m_result[1].quantization_config = bnb_config

C4_Witness ==
    /\ m_pc = "done"
    /\ args.use_4bit_quantization
    /\ args.use_8bit_quantization
    /\ m_result[1].quantization_config.load_in_4bit
    /\ CountOf(m_calls, ModelLoad) = 1

\* C5: for "chatml" the tokenizer is loaded with the ChatmlSpecialTokens pad,
\* bos and eos tokens and the full token list, and its chat_template is set to
\* DEFAULT_CHATML_CHAT_TEMPLATE; for "zephyr" the same with ZephyrSpecialTokens
\* and DEFAULT_ZEPHYR_CHAT_TEMPLATE; for any other value it is loaded with no
\* special-token override and its chat_template is left as loaded.
C5_TokenizerSpecialTokens ==
    m_pc \in {"resize", "return", "done"} =>
        LET tpl == m_data_args.apply_chat_template
            Overrides(cls) ==
                [pad_token |-> cls.pad_token,
                 bos_token |-> cls.bos_token,
                 eos_token |-> cls.eos_token,
                 additional_special_tokens |->
                     <<cls.user, cls.assistant, cls.system,
                       cls.eos_token, cls.bos_token, cls.pad_token>>,
                 trust_remote_code |-> TRUE]
        IN  /\ tpl = "chatml" =>
                  /\ tokenizer.kwargs = Overrides(ChatmlSpecialTokens)
                  /\ tokenizer.chat_template = DEFAULT_CHATML_CHAT_TEMPLATE
            /\ tpl = "zephyr" =>
                  /\ tokenizer.kwargs = Overrides(ZephyrSpecialTokens)
                  /\ tokenizer.chat_template = DEFAULT_ZEPHYR_CHAT_TEMPLATE
            /\ tpl \notin {"chatml", "zephyr"} =>
                  /\ tokenizer.kwargs = [trust_remote_code |-> TRUE]
                  /\ tokenizer.chat_template = "pretrained"
            /\ m_pc = "done" => m_result[3] = tokenizer

C5_Witness ==
    /\ m_pc = "done"
    /\ m_data_args.apply_chat_template = "zephyr"
    /\ m_result[3].kwargs.pad_token = "<pad>"
    /\ Len(m_result[3].kwargs.additional_special_tokens) = 6
    /\ m_result[3].chat_template = DEFAULT_ZEPHYR_CHAT_TEMPLATE

\* parts, joined with commas, give s
RECURSIVE StrJoin(_)
StrJoin(parts) ==
    IF Len(parts) = 1 THEN parts[1]
    ELSE parts[1] \o S_comma \o StrJoin(Tail(parts))

\* C6: the adapter configuration is None if and only if use_peft_lora is
\* false; when it is set, target_modules is the string "all-linear" if
\* lora_target_modules equals it and otherwise the list of the pieces of
\* lora_target_modules between commas; the model returned is the loaded model,
\* with no adapter applied to it.
C6_AdapterConfig ==
    /\ m_pc \in {"template", "load_tokenizer", "resize", "return", "done"} =>
          /\ (peft_config = None) <=> ~args.use_peft_lora
          /\ args.use_peft_lora =>
                IF args.lora_target_modules = S_all_linear
                THEN peft_config.target_modules = S_all_linear
                ELSE LET parts == peft_config.target_modules
                     IN  /\ Len(parts) >= 1
                         /\ \A i \in DOMAIN parts : ~Contains(S_comma, parts[i])
                         /\ StrJoin(parts) = args.lora_target_modules
    /\ SeqRange(m_calls) \subseteq {ModelLoad, TokenizerLoad, Resize}
    /\ m_pc = "done" =>
          /\ m_result[2] = peft_config
          /\ m_result[1] = model
          /\ m_result[1].name_or_path = args.model_name_or_path

C6_Witness ==
    /\ m_pc = "done"
    /\ args.use_peft_lora
    /\ args.lora_target_modules = <<"q", ",", "v">>
    /\ m_result[2].target_modules = << <<"q">>, <<"v">> >>

\* C8: resize_token_embeddings is called exactly once when apply_chat_template
\* is "chatml" or "zephyr" and never otherwise; the call comes after the model
\* load and the tokenizer load, with the new tokenizer's length and
\* pad_to_multiple_of=8, and passes mean_resizing=False if and only if a
\* quantization configuration is in use, ACCELERATE_USE_FSDP is "true" in any
\* letter case, and the transformers version is at least 4.46.0.
C8_ResizeOnce ==
    LET templated == m_data_args.apply_chat_template \in {"chatml", "zephyr"}
        quantized == args.use_4bit_quantization \/ args.use_8bit_quantization
        fsdp == /\ FsdpKey \in DOMAIN env.environ
                /\ env.environ[FsdpKey] \in
                       { <<a, b, c, d>> : a \in {"t", "T"}, b \in {"r", "R"},
                                          c \in {"u", "U"}, d \in {"e", "E"} }
        recent == env.transformers_version \in {V_4_46_0, V_5_0_0}
    IN  /\ Len(resize_calls) = CountOf(m_calls, Resize)
        /\ Len(resize_calls) <= 1
        /\ ~templated => Len(resize_calls) = 0
        /\ (templated /\ m_pc \in {"return", "done"}) => Len(resize_calls) = 1
        /\ Len(resize_calls) = 1 =>
              /\ CountOf(m_calls, ModelLoad) = 1
              /\ CountOf(m_calls, TokenizerLoad) = 1
              /\ IndexOf(m_calls, ModelLoad) < IndexOf(m_calls, Resize)
              /\ IndexOf(m_calls, TokenizerLoad) < IndexOf(m_calls, Resize)
              /\ resize_calls[1].new_num_tokens = Cardinality(tokenizer.vocab)
              /\ resize_calls[1].pad_to_multiple_of = 8
              /\ (resize_calls[1].mean_resizing = "False")
                     <=> (quantized /\ fsdp /\ recent)
              /\ resize_calls[1].mean_resizing \in {"False", "default"}

C8_Witness ==
    /\ m_pc = "done"
    /\ Len(resize_calls) = 1
    /\ resize_calls[1].mean_resizing = "False"
    /\ env.environ[FsdpKey] = <<"T", "R", "U", "E">>
    /\ env.transformers_version = V_5_0_0
    /\ args.use_8bit_quantization
    /\ ~args.use_4bit_quantization
====
